---- MODULE Spec2Model ----
(***************************************************************************)
(* Model of VALentine/Valentine/src/main.rs: a full-screen terminal quiz.  *)
(* main acquires the terminal (TermGuard::init), draws a welcome frame,    *)
(* plays the jet cutscene, asks three multiple-choice questions (ask_mc),  *)
(* runs the final yes/no lock (final_lock) and returns; the guard's Drop   *)
(* restores the terminal.  One action per draw_frame call, per event read  *)
(* and per cutscene tick; the terminal event stream and the terminal size  *)
(* are the environment.                                                    *)
(***************************************************************************)
EXTENDS Integers, Sequences, FiniteSets, TLC

VARIABLES
    pc,            \* position of main's single thread
    exitCode,      \* -1 while main runs, 0 = Ok(()), 1 = Err(_) returned by main
    altScreen,     \* terminal is in the alternate screen buffer
    cursorHidden,  \* terminal cursor is hidden
    rawMode,       \* terminal is in raw input mode
    guard,         \* "none" | "held" | "dropped": the TermGuard value _guard
    dropCount,     \* number of executions of Drop::drop
    size,          \* <<columns, rows>> of the terminal right now
    sizeOk,        \* terminal::size() succeeds (otherwise term_size falls back)
    queue,         \* terminal events delivered but not yet read()
    frame,         \* the last frame flushed to the screen
    q,             \* ask_mc's idx (i + 1 of main's loop), 0 outside the loop
    c,             \* the letter last returned by read_abcd / read_yn
    no_count,      \* final_lock's no_count
    w,             \* jet_cutscene's w
    h,             \* jet_cutscene's h
    x,             \* jet_cutscene's loop variable
    glyphCols,     \* history: columns at which the glyph was drawn, in order
    discarded,     \* history: the latest reader call has discarded an event
    readsSinceDraw,\* history: reader calls returned since the last draw_frame
    passed,        \* history: indices of the questions answered correctly
    finalEntries,  \* history: number of calls of final_lock
    nPresses,      \* history: number of "N" returned by read_yn
    stale,         \* history: queued events that arrived before the last flush
    ioFailed,      \* history: a setup, draw or read call returned Err to main
    dropFailed,    \* history: a call inside Drop::drop returned Err
    sigwinch,      \* crossterm's event source is set up: resizes are delivered
    stdoutBuf,     \* what a flush that failed has left in stdout's buffer
    pure           \* inputs and result of a helper function applied on its own

termVars  == <<altScreen, cursorHidden, rawMode, guard, dropCount>>
envVars   == <<size, sizeOk, queue>>
localVars == <<q, c, no_count, w, h, x>>
histVars  == <<glyphCols, discarded, readsSinceDraw, passed, finalEntries, nPresses>>
noteVars  == <<stale, ioFailed, dropFailed>>
rtVars    == <<sigwinch, stdoutBuf>>
vars == <<pc, exitCode, termVars, envVars, frame, localVars, histVars, noteVars,
          rtVars, pure>>

----------------------------------------------------------------------------
(* Bounds of the model *)

MaxQueue == 1      \* events that may wait unread in the terminal's input
MaxWidth == 15     \* widest terminal the environment resizes to
MaxHeight == 6     \* tallest terminal the environment resizes to
MaxNo == 4         \* "N" answers given at the final lock

(* Program constants *)

GlyphWidth == 13       \* jet2.len()
DefaultWidth == 80     \* term_size fallback columns
DefaultHeight == 24    \* term_size fallback rows
LockTotal == 4         \* the literal lock_total passed to every draw_frame

\* The sizes the terminal takes: every width from one column less than the
\* glyph up to MaxWidth at the tallest height, and the widest terminal two
\* rows shorter (so that the middle row h / 2 differs).
Widths  == (GlyphWidth - 1)..MaxWidth
Heights == {MaxHeight - 2, MaxHeight}
Sizes   == (Widths \X {MaxHeight}) \cup ({MaxWidth} \X Heights)

----------------------------------------------------------------------------
(* Terminal events: crossterm's Event, KeyEvent.kind and KeyEvent.code *)

KeyEv(kind, code, ch) == [type |-> "Key", kind |-> kind, code |-> code, ch |-> ch]
MouseEv  == [type |-> "Mouse",  kind |-> "-", code |-> "-", ch |-> "-"]
ResizeEv == [type |-> "Resize", kind |-> "-", code |-> "-", ch |-> "-"]

\* The events the user produces in the model (a resize produces ResizeEv).
UserEvents ==
    { KeyEv("Press", "Char", "a"),  KeyEv("Press", "Char", "b"),
      KeyEv("Press", "Char", "C"),  KeyEv("Press", "Char", "y"),
      KeyEv("Press", "Char", "N"),  KeyEv("Press", "Enter", "-"),
      KeyEv("Release", "Char", "a"), KeyEv("Release", "Char", "y"),
      KeyEv("Repeat", "Char", "N"),
      MouseEv }

Events == UserEvents \cup {ResizeEv}

----------------------------------------------------------------------------
(* Pure helpers *)

LowerCase == <<"a","b","c","d","e","f","g","h","i","j","k","l","m",
               "n","o","p","q","r","s","t","u","v","w","x","y","z">>
UpperCase == <<"A","B","C","D","E","F","G","H","I","J","K","L","M",
               "N","O","P","Q","R","S","T","U","V","W","X","Y","Z">>

\* char::to_ascii_uppercase
to_ascii_uppercase(ch) ==
    IF \E i \in DOMAIN LowerCase : LowerCase[i] = ch
    THEN UpperCase[CHOOSE i \in DOMAIN LowerCase : LowerCase[i] = ch]
    ELSE ch

\* u16 subtraction that wraps around below zero instead of stopping at it
wrapping_sub(a, b) == (a - b + 65536) % 65536

\* u16::saturating_sub
saturating_sub(a, b) == IF a >= b THEN a - b ELSE 0

\* term_size(): terminal::size().unwrap_or((80, 24))
term_size == IF sizeOk THEN size ELSE <<DefaultWidth, DefaultHeight>>

\* wait_any_key's pattern: if let Event::Key(_) = read()?
wait_any_key_accepts(e) == e.type = "Key"

\* read_abcd without the matches!(c, 'A' | 'B' | 'C' | 'D') test
read_abcd_accepts_any_char(e) ==
    /\ e.type = "Key"
    /\ e.code = "Char"

\* read_abcd's pattern: Event::Key(k), KeyCode::Char(c), uppercased in A..D
read_abcd_accepts(e) ==
    /\ e.type = "Key"
    /\ e.code = "Char"
    /\ to_ascii_uppercase(e.ch) \in {"A", "B", "C", "D"}

\* read_yn's pattern: Event::Key(k), KeyCode::Char(c), uppercased in Y, N
read_yn_accepts(e) ==
    /\ e.type = "Key"
    /\ e.code = "Char"
    /\ to_ascii_uppercase(e.ch) \in {"Y", "N"}

\* The configured questions (main's locks vector)
locks ==
    << [title |-> "LOCK 1: FIRST DATE",
        prompt |-> "Where was our first date?",
        a |-> "Kiitsu", b |-> "Raising Canes", c |-> "Six Flags", d |-> "San Diego",
        correct |-> "A",
        wrong_msg |-> "Hint: You like sushi don't you?"],
       [title |-> "LOCK 2: FIRST HUG",
        prompt |-> "When did we first hug?",
        a |-> "Joshua Tree", b |-> "The beach", c |-> "Dining In",
        d |-> "All of the above",
        correct |-> "A",
        wrong_msg |-> "Hint: flightline chaos"],
       [title |-> "LOCK 3: I LOVE YOU SO MUCH THAT I'll...",
        prompt |-> "What game did we play when we were getting to know each other?",
        a |-> "It Takes Two", b |-> "Overcooked", c |-> "Fortnite",
        d |-> "Animal Crossing",
        correct |-> "C",
        wrong_msg |-> "Hint: I carried so hard, its a battle royal game!"] >>

\* ask_mc's lines vector; every line is a sequence of its pieces
ask_lines(lk) ==
    << <<lk.prompt>>, <<>>, <<"A) ", lk.a>>, <<"B) ", lk.b>>, <<"C) ", lk.c>>,
       <<"D) ", lk.d>>, <<>>, <<"Press A / B / C / D">> >>

\* final_msg with the catch-all arm falling back to the first hint
final_msg_wrap(n) ==
    IF n = 1 THEN "X I think you pressed the wrong key..."
    ELSE IF n = 2 THEN "X Hint: 3 letters."
    ELSE IF n = 3 THEN "X Just kidding, I know you love me"
    ELSE "X I think you pressed the wrong key..."

\* final_lock's match no_count { 1 => .., 2 => .., _ => .. }
final_msg(n) ==
    IF n = 1 THEN "X I think you pressed the wrong key..."
    ELSE IF n = 2 THEN "X Hint: 3 letters."
    ELSE "X Just kidding, I know you love me"

NoGlyph == <<>>
NoFrame == [title |-> "", body |-> <<>>, footer |-> "", lock_idx |-> 0,
            lock_total |-> 0, status |-> "", w |-> 0, h |-> 0, glyph |-> NoGlyph]

\* draw_frame handing lock_total and lock_idx to the status bar in swapped order
draw_frame_swapped(title, body, footer, lock_idx, lock_total, status) ==
    [title |-> title, body |-> body, footer |-> footer, lock_idx |-> lock_total,
     lock_total |-> lock_idx, status |-> status,
     w |-> term_size[1], h |-> term_size[2], glyph |-> NoGlyph]

\* draw_frame: the frame that is on screen once its flush succeeded
draw_frame(title, body, footer, lock_idx, lock_total, status) ==
    [title |-> title, body |-> body, footer |-> footer, lock_idx |-> lock_idx,
     lock_total |-> lock_total, status |-> status,
     w |-> term_size[1], h |-> term_size[2], glyph |-> NoGlyph]

\* No helper function is being applied on its own.
PureIdle == [op |-> "none", a |-> 0, b |-> 0, out |-> <<>>]

----------------------------------------------------------------------------
(* Initial state: the process has started, main has not run yet *)

Init ==
    /\ pc = "init"
    /\ exitCode = -1
    /\ altScreen = FALSE
    /\ cursorHidden = FALSE
    /\ rawMode = FALSE
    /\ guard = "none"
    /\ dropCount = 0
    /\ sizeOk \in BOOLEAN
    /\ size \in Sizes
    /\ (~sizeOk => size = <<MaxWidth, MaxHeight>>)
    /\ queue = <<>>
    /\ frame = NoFrame
    /\ q = 0
    /\ c = ""
    /\ no_count = 0
    /\ w = 0
    /\ h = 0
    /\ x = 0
    /\ glyphCols = <<>>
    /\ discarded = FALSE
    /\ readsSinceDraw = 0
    /\ passed = <<>>
    /\ finalEntries = 0
    /\ nPresses = 0
    /\ stale = 0
    /\ ioFailed = FALSE
    /\ dropFailed = FALSE
    /\ sigwinch = FALSE
    /\ stdoutBuf = <<>>
    /\ pure = PureIdle

----------------------------------------------------------------------------
(* The guard *)

\* What stdout carries: a terminal command, or one part of a frame in the
\* order draw_frame queues it (the glyph being queued by jet_cutscene).
Cmd(name) == [op |-> name, fr |-> NoFrame]
Part(name, fr) == [op |-> name, fr |-> fr]

\* The commands of TermGuard::init's and of Drop::drop's execute!.
SetupCmds   == <<Cmd("EnterAlternateScreen"), Cmd("Hide"), Cmd("Clear")>>
RestoreCmds == <<Cmd("Show"), Cmd("LeaveAlternateScreen")>>

\* What draw_frame queues for fr: clear, the title, the lines, the footer,
\* then the status bar (fill and LOCK i/n, then the clock and STATUS), whose
\* styled text ends with the bytes that reset the attributes and show nothing.
FrameParts(fr) ==
    <<Part("clear", fr), Part("title", fr), Part("body", fr),
      Part("footer", fr), Part("lock", fr), Part("status", fr),
      Part("reset", fr)>>

\* The terminal t = [alt, hid, fr] after it received one item.
WriteItem(t, it) ==
    CASE it.op = "EnterAlternateScreen" -> [t EXCEPT !.alt = TRUE, !.fr = NoFrame]
      [] it.op = "LeaveAlternateScreen" -> [t EXCEPT !.alt = FALSE, !.fr = NoFrame]
      [] it.op = "Hide"   -> [t EXCEPT !.hid = TRUE]
      [] it.op = "Show"   -> [t EXCEPT !.hid = FALSE]
      [] it.op \in {"Clear", "clear"} -> [t EXCEPT !.fr = NoFrame]
      [] it.op = "title"  -> [t EXCEPT !.fr.title = it.fr.title]
      [] it.op = "body"   -> [t EXCEPT !.fr.body = it.fr.body]
      [] it.op = "footer" -> [t EXCEPT !.fr.footer = it.fr.footer]
      [] it.op = "lock"   -> [t EXCEPT !.fr.lock_idx = it.fr.lock_idx,
                                       !.fr.lock_total = it.fr.lock_total,
                                       !.fr.w = it.fr.w, !.fr.h = it.fr.h]
      [] it.op = "status" -> [t EXCEPT !.fr.status = it.fr.status]
      [] it.op = "reset"  -> t
      [] it.op = "glyph"  -> [t EXCEPT !.fr.glyph = it.fr.glyph]

\* The terminal after it received the items in order.
RECURSIVE Written(_, _)
Written(t, items) ==
    IF items = <<>> THEN t
    ELSE Written(WriteItem(t, Head(items)), Tail(items))

\* What a flush that failed after `done` items leaves in stdout's buffer.
Rest(items, done) == SubSeq(items, done + 1, Len(items))

\* Outcomes of Drop::drop: disable_raw_mode succeeded or not, and how many
\* items of stdout's buffer (what an earlier failed flush left, then Show and
\* LeaveAlternateScreen) were written before execute!'s flush failed.
DropOutcomes == [raw : BOOLEAN, wrote : 0..(Len(FrameParts(NoFrame)) + Len(RestoreCmds))]

\* a guard whose drop never runs (the value is leaked)
Drop_leaked(o) ==
    /\ UNCHANGED <<rawMode, cursorHidden, altScreen, dropCount, guard, dropFailed,
                   frame, stdoutBuf>>

\* impl Drop for TermGuard: both results are discarded with `let _ =`; what
\* the flush of execute! did not write stays in stdout's buffer.
Drop(o) ==
    LET out == stdoutBuf \o RestoreCmds
        t   == Written([alt |-> altScreen, hid |-> cursorHidden, fr |-> frame],
                       SubSeq(out, 1, o.wrote))
    IN  /\ o.wrote <= Len(out)
        /\ dropFailed' = (~o.raw \/ o.wrote < Len(out))
        /\ rawMode' = IF o.raw THEN FALSE ELSE rawMode
        /\ cursorHidden' = t.hid
        /\ altScreen' = t.alt
        /\ frame' = t.fr
        /\ dropCount' = dropCount + 1
        /\ guard' = "dropped"
        /\ stdoutBuf' = Rest(out, o.wrote)

\* main's body returns `code` with scr on screen and buf in stdout's buffer:
\* main's locals are gone and the process no longer reads events; _guard is
\* about to go out of scope (TermGuardDrop).
Return(code, scr, buf) ==
    /\ guard = "held"
    /\ pc' = "returned"
    /\ exitCode' = code
    /\ frame' = scr
    /\ stdoutBuf' = buf
    /\ queue' = <<>>
    /\ q' = 0 /\ c' = "" /\ no_count' = 0 /\ w' = 0 /\ h' = 0 /\ x' = 0
    /\ glyphCols' = <<>> /\ discarded' = FALSE /\ readsSinceDraw' = 0
    /\ stale' = 0
    /\ UNCHANGED <<termVars, size, sizeOk, passed, finalEntries, nPresses,
                   dropFailed, sigwinch, pure>>

\* _guard goes out of scope at the end of main: Drop::drop runs.
TermGuardDrop ==
    /\ pc = "returned"
    /\ pc' = "exited"
    /\ \E o \in DropOutcomes : Drop(o)
    /\ UNCHANGED <<exitCode, envVars, localVars, histVars, stale, ioFailed,
                   sigwinch, pure>>

\* A draw or read call returned Err and `?` returns it from main.
Fail(scr, buf) ==
    /\ ioFailed' = TRUE
    /\ Return(1, scr, buf)

\* event::read() returned Err: nothing was being written.
ReadFail == Fail(frame, <<>>)

\* The stdout.flush() of a draw failed after it wrote n of the items queued:
\* those are on screen, the others stay in stdout's buffer.  At least the
\* last item stays (a flush that wrote everything returns Ok); for a frame
\* that is the attribute reset, so the whole frame can be on screen.
FlushFail(scr, items) ==
    \E n \in 0..(Len(items) - 1) :
        Fail(Written([alt |-> altScreen, hid |-> cursorHidden, fr |-> scr],
                     SubSeq(items, 1, n)).fr,
             Rest(items, n))

\* TermGuard::init called by main.  failAt = 0: every step succeeds;
\* 1, 2, 3: execute! fails at EnterAlternateScreen, Hide, Clear;
\* 4: enable_raw_mode fails.  On failure `?` returns from main before any
\* TermGuard exists, so no Drop runs; the commands execute! did not write
\* stay in stdout's buffer.
TermGuardInit ==
    /\ pc = "init"
    /\ \E failAt \in 0..4 :
        /\ altScreen' = (failAt = 0 \/ failAt >= 2)
        /\ cursorHidden' = (failAt = 0 \/ failAt >= 3)
        /\ rawMode' = (failAt = 0)
        /\ IF failAt = 0
           THEN /\ guard' = "held"
                /\ pc' = "welcome_draw"
                /\ exitCode' = exitCode
           ELSE /\ guard' = guard
                /\ pc' = "exited"
                /\ exitCode' = 1
        /\ ioFailed' = (failAt # 0)
        /\ stdoutBuf' = IF failAt \in 1..3 THEN Rest(SetupCmds, failAt - 1) ELSE <<>>
    /\ UNCHANGED <<dropCount, envVars, frame, localVars, histVars,
                   stale, dropFailed, sigwinch, pure>>

\* The process ends: the runtime flushes stdout once more, so the commands a
\* failed flush left in its buffer are written now, as far as this write
\* gets (n of them); the result is ignored and the rest is lost.
ExitFlush ==
    /\ pc = "exited"
    /\ stdoutBuf # <<>>
    /\ \E n \in 0..Len(stdoutBuf) :
        LET t == Written([alt |-> altScreen, hid |-> cursorHidden, fr |-> frame],
                         SubSeq(stdoutBuf, 1, n))
        IN  /\ altScreen' = t.alt
            /\ cursorHidden' = t.hid
            /\ frame' = t.fr
    /\ stdoutBuf' = <<>>
    /\ UNCHANGED <<pc, exitCode, rawMode, guard, dropCount, envVars, localVars,
                   histVars, noteVars, sigwinch, pure>>

----------------------------------------------------------------------------
(* The environment: key, mouse and resize events *)

\* The user produces an event; the terminal delivers it to the input stream.
Arrive ==
    /\ pc \notin {"returned", "exited"}
    /\ Len(queue) < MaxQueue
    /\ \E e \in UserEvents : queue' = Append(queue, e)
    /\ UNCHANGED <<pc, exitCode, termVars, size, sizeOk, frame, localVars, histVars,
                   noteVars, rtVars, pure>>

\* The terminal is resized; a resize event is delivered once crossterm's
\* event source listens for the signal, which it does from the first
\* event::read() on.  Before that the resize goes unnoticed.
Resize ==
    /\ pc \notin {"returned", "exited"}
    /\ sizeOk
    /\ sigwinch => Len(queue) < MaxQueue
    /\ \E s \in Sizes \ {size} : size' = s
    /\ queue' = IF sigwinch THEN Append(queue, ResizeEv) ELSE queue
    /\ UNCHANGED <<pc, exitCode, termVars, sizeOk, frame, localVars, histVars,
                   noteVars, rtVars, pure>>

----------------------------------------------------------------------------
(* Building blocks of main's steps *)

\* draw_frame without its final stdout.flush(): nothing new is on screen
Drawn_unflushed(fr, next) ==
    /\ pc' = next
    /\ UNCHANGED <<exitCode, termVars, envVars, frame, localVars, histVars,
                   noteVars, rtVars, pure>>

\* One successful draw_frame call: the frame is on screen, control moves on.
Drawn(fr, next) ==
    /\ frame' = fr
    /\ pc' = next
    /\ readsSinceDraw' = 0
    /\ discarded' = FALSE
    /\ stale' = Len(queue)
    /\ UNCHANGED <<exitCode, termVars, envVars, localVars,
                   glyphCols, passed, finalEntries, nPresses,
                   ioFailed, dropFailed, rtVars, pure>>

\* a draw_frame call whose I/O error is ignored and the call tried again
Draw_retry(at, fr, next) ==
    /\ pc = at
    /\ \E ok \in BOOLEAN :
        IF ok THEN Drawn(fr, next)
        ELSE /\ ioFailed' = TRUE
             /\ UNCHANGED <<pc, exitCode, termVars, envVars, frame, localVars,
                            histVars, stale, dropFailed, rtVars, pure>>

\* One draw_frame call at position `at`; an I/O error returns from main.
Draw(at, fr, next) ==
    /\ pc = at
    /\ \E ok \in BOOLEAN :
        IF ok THEN Drawn(fr, next) ELSE FlushFail(frame, FrameParts(fr))

\* One iteration of a reader's loop discards the event it read.
Discard ==
    /\ queue' = Tail(queue)
    /\ discarded' = TRUE
    /\ stale' = saturating_sub(stale, 1)
    /\ UNCHANGED <<pc, exitCode, termVars, size, sizeOk, frame, localVars,
                   glyphCols, readsSinceDraw, passed, finalEntries, nPresses,
                   ioFailed, dropFailed, rtVars, pure>>

\* A reader call returns with the event it read.
Returned ==
    /\ queue' = Tail(queue)
    /\ discarded' = discarded
    /\ readsSinceDraw' = IF readsSinceDraw < 2 THEN readsSinceDraw + 1 ELSE 2
    /\ stale' = saturating_sub(stale, 1)
    /\ UNCHANGED <<ioFailed, dropFailed, rtVars, pure>>

----------------------------------------------------------------------------
(* main: welcome frame *)

\* main's first draw_frame
MainWelcomeDraw ==
    Draw("welcome_draw",
         draw_frame("OPERATION: VALENTINE", << <<"Press any key to begin">> >>,
                    "Controls: A/B/C/D, Y/N", 0, LockTotal, "STANDBY"),
         "welcome_wait")

\* wait_any_key calls event::read() for the first time in the process: the
\* event source is set up, then the call waits for an event.
EventSourceInit ==
    /\ pc = "welcome_wait"
    /\ ~sigwinch
    /\ sigwinch' = TRUE
    /\ UNCHANGED <<pc, exitCode, termVars, envVars, frame, localVars, histVars,
                   noteVars, stdoutBuf, pure>>

\* main's wait_any_key()?, then the call of jet_cutscene
MainWelcomeWait ==
    /\ pc = "welcome_wait"
    /\ \E ok \in BOOLEAN :
        IF ~ok THEN ReadFail
        ELSE /\ sigwinch
             /\ queue # <<>>
             /\ IF wait_any_key_accepts(Head(queue))
                THEN /\ Returned
                     /\ pc' = "cut_start"
                     /\ UNCHANGED <<exitCode, termVars, size, sizeOk, frame,
                                    localVars, glyphCols, passed, finalEntries,
                                    nPresses>>
                ELSE Discard

----------------------------------------------------------------------------
(* jet_cutscene *)

\* the range written as 0..=(w.saturating_sub(jet2.len() as u16))
cut_bound_inclusive(width) == saturating_sub(width, GlyphWidth) + 1

\* the end of the range 0..(w.saturating_sub(jet2.len() as u16))
cut_bound(width) == saturating_sub(width, GlyphWidth)

\* let (w, h) = term_size(); the range of the for loop is built from this w
CutsceneStart ==
    /\ pc = "cut_start"
    /\ w' = term_size[1]
    /\ h' = term_size[2]
    /\ x' = 0
    /\ glyphCols' = <<>>
    /\ pc' = "cut_loop"
    /\ UNCHANGED <<exitCode, termVars, envVars, frame, q, c, no_count,
                   discarded, readsSinceDraw, passed, finalEntries, nPresses,
                   noteVars, rtVars, pure>>

\* One iteration of the for loop: draw_frame, the glyph at (x, y) and
\* (x, y + 1) with y = h / 2, flush, sleep.  failAt names the call whose I/O
\* error returns from main.
CutsceneTick ==
    /\ pc = "cut_loop"
    /\ x < cut_bound(w)
    /\ LET chrome == draw_frame("OPERATION: VALENTINE SORTIE",
                                << <<"Cleared for takeoff">> >>,
                                "Enjoy the flyby", 0, LockTotal, "RUNNING")
       IN \E failAt \in {"none", "draw_frame", "glyph"} :
            IF failAt = "draw_frame" THEN FlushFail(frame, FrameParts(chrome))
            ELSE IF failAt = "glyph"
                 THEN FlushFail(chrome,
                                <<Part("glyph", [chrome EXCEPT !.glyph = <<x, h \div 2>>])>>)
            ELSE /\ frame' = [chrome EXCEPT !.glyph = <<x, h \div 2>>]
                 /\ glyphCols' = Append(glyphCols, x)
                 /\ x' = x + 1
                 /\ readsSinceDraw' = 0
                 /\ stale' = Len(queue)
                 /\ UNCHANGED <<pc, exitCode, termVars, envVars, q, c, no_count,
                                w, h, discarded, passed, finalEntries, nPresses,
                                ioFailed, dropFailed, rtVars, pure>>

\* main's loop skipping the first lock: it starts at the second question
CutsceneEnd_skip ==
    /\ pc = "cut_loop"
    /\ x >= saturating_sub(w, GlyphWidth)
    /\ pc' = "ask_draw"
    /\ q' = 2
    /\ w' = 0 /\ h' = 0 /\ x' = 0
    /\ glyphCols' = <<>>
    /\ UNCHANGED <<exitCode, termVars, envVars, frame, c, no_count,
                   discarded, readsSinceDraw, passed, finalEntries, nPresses,
                   noteVars, rtVars, pure>>

\* The range is exhausted: jet_cutscene returns Ok(()) and main's loop over
\* locks starts with i = 0, idx = i + 1.
CutsceneEnd ==
    /\ pc = "cut_loop"
    /\ x >= cut_bound(w)
    /\ pc' = "ask_draw"
    /\ q' = 1
    /\ w' = 0 /\ h' = 0 /\ x' = 0
    /\ glyphCols' = <<>>
    /\ UNCHANGED <<exitCode, termVars, envVars, frame, c, no_count,
                   discarded, readsSinceDraw, passed, finalEntries, nPresses,
                   noteVars, rtVars, pure>>

----------------------------------------------------------------------------
(* ask_mc(stdout, q, idx = i + 1, total = 4, started) *)

\* the question frame at the top of ask_mc's loop
AskDraw ==
    /\ q \in DOMAIN locks
    /\ Draw("ask_draw",
            draw_frame(locks[q].title, ask_lines(locks[q]), "Choose wisely",
                       q, LockTotal, "AWAITING INPUT"),
            "ask_read")

\* ask_mc comparing every answer with the first question's correct letter
ask_branch_first(letter, lk) ==
    IF letter = "A" THEN "ask_pass_draw" ELSE "ask_retry_draw"

\* where ask_mc goes with the letter read_abcd returned: c == q.correct
ask_branch(letter, lk) ==
    IF letter = lk.correct THEN "ask_pass_draw" ELSE "ask_retry_draw"

\* let c = read_abcd()?; one iteration of read_abcd's loop
AskRead ==
    /\ pc = "ask_read"
    /\ \E ok \in BOOLEAN :
        IF ~ok THEN ReadFail
        ELSE /\ queue # <<>>
             /\ IF read_abcd_accepts(Head(queue))
                THEN /\ Returned
                     /\ c' = to_ascii_uppercase(Head(queue).ch)
                     /\ pc' = ask_branch(c', locks[q])
                     /\ passed' = IF c' = locks[q].correct /\ Len(passed) <= Len(locks)
                                  THEN Append(passed, q) ELSE passed
                     /\ UNCHANGED <<exitCode, termVars, size, sizeOk, frame,
                                    q, no_count, w, h, x, glyphCols,
                                    finalEntries, nPresses>>
                ELSE Discard

\* the "Correct!" frame
AskPassDraw ==
    Draw("ask_pass_draw",
         draw_frame(locks[q].title, << <<"Correct!">> >>,
                    "Press any key to continue", q, LockTotal, "PASS"),
         "ask_pass_wait")

\* wait_any_key()?; break; ask_mc returns and main's loop takes the next
\* question, or ends and calls final_lock (let mut no_count = 0)
AskPassWait ==
    /\ pc = "ask_pass_wait"
    /\ \E ok \in BOOLEAN :
        IF ~ok THEN ReadFail
        ELSE /\ queue # <<>>
             /\ IF wait_any_key_accepts(Head(queue))
                THEN /\ Returned
                     /\ c' = ""
                     /\ IF q < Len(locks)
                        THEN /\ q' = q + 1
                             /\ pc' = "ask_draw"
                             /\ UNCHANGED <<no_count, finalEntries>>
                        ELSE /\ q' = 0
                             /\ pc' = "final_draw"
                             /\ no_count' = 0
                             /\ finalEntries' = finalEntries + 1
                     /\ UNCHANGED <<exitCode, termVars, size, sizeOk, frame,
                                    w, h, x, glyphCols, passed, nPresses>>
                ELSE Discard

\* the "Incorrect." frame carrying the first question's wrong_msg at every lock
AskRetryDraw_first_hint ==
    Draw("ask_retry_draw",
         draw_frame(locks[q].title, << <<"Incorrect.">>, <<locks[1].wrong_msg>> >>,
                    "Press any key to retry", q, LockTotal, "RETRY"),
         "ask_retry_wait")

\* the "Incorrect." frame with the question's wrong_msg
AskRetryDraw ==
    Draw("ask_retry_draw",
         draw_frame(locks[q].title, << <<"Incorrect.">>, <<locks[q].wrong_msg>> >>,
                    "Press any key to retry", q, LockTotal, "RETRY"),
         "ask_retry_wait")

\* wait_any_key()?; the loop of ask_mc starts over with the same question
AskRetryWait ==
    /\ pc = "ask_retry_wait"
    /\ \E ok \in BOOLEAN :
        IF ~ok THEN ReadFail
        ELSE /\ queue # <<>>
             /\ IF wait_any_key_accepts(Head(queue))
                THEN /\ Returned
                     /\ c' = ""
                     /\ pc' = "ask_draw"
                     /\ UNCHANGED <<exitCode, termVars, size, sizeOk, frame,
                                    q, no_count, w, h, x, glyphCols, passed,
                                    finalEntries, nPresses>>
                ELSE Discard

----------------------------------------------------------------------------
(* final_lock *)

\* the yes/no frame at the top of final_lock's loop
FinalDraw ==
    Draw("final_draw",
         draw_frame("FINAL LOCK",
                    << <<"Will you be my Valentine? (Y / N)">>,
                       <<"(This is easy right? right?)">> >>,
                    "Press Y or N", 4, 4, "AWAITING INPUT"),
         "final_read")

\* final_lock's match without a working 'Y' arm
final_branch_deaf(letter) ==
    IF letter = "N" THEN "final_no_draw" ELSE "final_draw"

\* where final_lock's match goes with the letter read_yn returned
final_branch(letter) ==
    IF letter = "Y" THEN "final_yes_draw"
    ELSE IF letter = "N" THEN "final_no_draw"
    ELSE "final_draw"

\* match read_yn()? { .. }; one iteration of read_yn's loop; the 'N' arm
\* starts with no_count += 1
FinalRead ==
    /\ pc = "final_read"
    /\ \E ok \in BOOLEAN :
        IF ~ok THEN ReadFail
        ELSE /\ queue # <<>>
             /\ IF read_yn_accepts(Head(queue))
                THEN /\ Returned
                     /\ c' = to_ascii_uppercase(Head(queue).ch)
                     /\ pc' = final_branch(c')
                     /\ (c' = "N" => no_count < MaxNo)
                     /\ no_count' = IF c' = "N" THEN no_count + 1 ELSE no_count
                     /\ nPresses' = IF c' = "N" THEN nPresses + 1 ELSE nPresses
                     /\ UNCHANGED <<exitCode, termVars, size, sizeOk, frame,
                                    q, w, h, x, glyphCols, passed, finalEntries>>
                ELSE Discard

\* the "MISSION SUCCESS" frame
FinalYesDraw ==
    Draw("final_yes_draw",
         draw_frame("MISSION SUCCESS",
                    << <<"TAKEOFF CLEARED">>, <<"VALENTINE AUTHORIZED">> >>,
                    "Press any key to exit", 4, 4, "SUCCESS"),
         "final_yes_wait")

\* wait_any_key()?; break; final_lock returns Ok(()) and so does main
FinalYesWait ==
    /\ pc = "final_yes_wait"
    /\ \E ok \in BOOLEAN :
        IF ~ok THEN ReadFail
        ELSE /\ queue # <<>>
             /\ IF wait_any_key_accepts(Head(queue))
                THEN ioFailed' = ioFailed /\ Return(0, frame, <<>>)
                ELSE Discard

\* the hint frame selected by no_count
FinalNoDraw ==
    Draw("final_no_draw",
         draw_frame("FINAL LOCK", << <<final_msg(no_count)>> >>,
                    "Press any key to retry", 4, 4, "RETRY"),
         "final_no_wait")

\* wait_any_key()?; the loop of final_lock starts over
FinalNoWait ==
    /\ pc = "final_no_wait"
    /\ \E ok \in BOOLEAN :
        IF ~ok THEN ReadFail
        ELSE /\ queue # <<>>
             /\ IF wait_any_key_accepts(Head(queue))
                THEN /\ Returned
                     /\ c' = ""
                     /\ pc' = "final_draw"
                     /\ UNCHANGED <<exitCode, termVars, size, sizeOk, frame,
                                    q, no_count, w, h, x, glyphCols, passed,
                                    finalEntries, nPresses>>
                ELSE Discard

----------------------------------------------------------------------------
(* The program *)

Next ==
    \/ TermGuardInit
    \/ MainWelcomeDraw
    \/ EventSourceInit
    \/ MainWelcomeWait
    \/ CutsceneStart
    \/ CutsceneTick
    \/ CutsceneEnd
    \/ AskDraw
    \/ AskRead
    \/ AskPassDraw
    \/ AskPassWait
    \/ AskRetryDraw
    \/ AskRetryWait
    \/ FinalDraw
    \/ FinalRead
    \/ FinalYesDraw
    \/ FinalYesWait
    \/ FinalNoDraw
    \/ FinalNoWait
    \/ TermGuardDrop
    \/ ExitFlush
    \/ Arrive
    \/ Resize

Spec == Init /\ [][Next]_vars

\* The steps of main's thread (everything but the environment).
Thread ==
    \/ TermGuardInit
    \/ MainWelcomeDraw
    \/ EventSourceInit
    \/ MainWelcomeWait
    \/ CutsceneStart
    \/ CutsceneTick
    \/ CutsceneEnd
    \/ AskDraw
    \/ AskRead
    \/ AskPassDraw
    \/ AskPassWait
    \/ AskRetryDraw
    \/ AskRetryWait
    \/ FinalDraw
    \/ FinalRead
    \/ FinalYesDraw
    \/ FinalYesWait
    \/ FinalNoDraw
    \/ FinalNoWait
    \/ TermGuardDrop
    \/ ExitFlush

\* No call returns an I/O error in this step, inside Drop::drop either.
NoIoError == ioFailed' = FALSE /\ dropFailed' = FALSE

\* The program on a terminal without I/O errors and of a fixed size (any of
\* the sizes, chosen initially): the thread keeps running (it is the only
\* thread, nothing but a blocking read or a sleep suspends it), and the user
\* is not constrained.
LiveNext == NoIoError /\ (Thread \/ Arrive)
LiveSpec == Init /\ [][LiveNext]_vars /\ WF_vars(NoIoError /\ Thread)

----------------------------------------------------------------------------
(* The helper functions center_x and the status bar's clock, applied on
   their own to inputs drawn from bounded sets *)

MaxText == 16      \* longest text (in characters) below each multiple of 2^16
MaxSecs == 125     \* elapsed seconds enumerated from 0 without a gap

U16 == 65536           \* number of values of a u16

\* `n as u16`: a usize keeps its low 16 bits.
as_u16(n) == n % U16

\* center_x subtracting with wrap-around where the text is longer than the width
center_x_wrapping(width, count) ==
    LET len == as_u16(count)
    IN  ((width - len + U16) % U16) \div 2

\* center_x(width, text), the text given by its text.chars().count().
center_x(width, count) ==
    LET len == as_u16(count)
    IN  saturating_sub(width, len) \div 2

Digit == <<"0", "1", "2", "3", "4", "5", "6", "7", "8", "9">>

\* Display of an unsigned integer: its decimal digits, no sign, no padding.
RECURSIVE to_string(_)
to_string(n) ==
    IF n < 10 THEN <<Digit[n + 1]>>
    ELSE to_string(n \div 10) \o <<Digit[(n % 10) + 1]>>

\* "{:02}": zero-padded on the left up to two characters, never cut.
pad02(n) ==
    LET d == to_string(n)
    IN  IF Len(d) < 2 THEN <<"0">> \o d ELSE d

\* The clock with minutes rolling over into (undisplayed) hours.
format_time_hours(secs) ==
    pad02((secs \div 60) % 60) \o <<":">> \o pad02(secs % 60)

\* format!("{:02}:{:02}", secs / 60, secs % 60)
format_time(secs) ==
    pad02(secs \div 60) \o <<":">> \o pad02(secs % 60)

\* Widths center_x is applied to: the small ones, the fallback, the largest u16.
PureWidths == 0..MaxWidth \cup {DefaultWidth, U16 - 1}

\* Character counts of the texts center_x is applied to. Any &str is accepted:
\* the short ones, the longest line the program itself has (the third
\* question's prompt), the largest count a u16 holds, and the counts from
\* 65536 on, whose `as u16` drops the high bits.
LongestLine == 62
PureCounts ==
    0..MaxText \cup {LongestLine, U16 - 1}
        \cup {U16 + k : k \in 0..MaxText} \cup {2 * U16 - 1}

\* Elapsed whole seconds: the first minutes, and around the hour and 100 minutes.
PureSecs == 0..MaxSecs \cup {3599, 3600, 3601, 3661, 5999, 6000, 6001, 59999, 60000}

progVars == <<pc, exitCode, termVars, envVars, frame, localVars, histVars, noteVars,
              rtVars>>

ApplyCenterX ==
    \E width \in PureWidths, count \in PureCounts :
        /\ pure' = [op |-> "center_x", a |-> width, b |-> count,
                    out |-> <<center_x(width, count)>>]
        /\ UNCHANGED progVars

ApplyFormatTime ==
    \E secs \in PureSecs :
        /\ pure' = [op |-> "format_time", a |-> secs, b |-> 0,
                    out |-> format_time(secs)]
        /\ UNCHANGED progVars

PureNext ==
    \/ ApplyCenterX
    \/ ApplyFormatTime

PureSpec == Init /\ [][PureNext]_vars

TypeOK ==
    /\ pc \in {"init", "welcome_draw", "welcome_wait", "cut_start", "cut_loop",
               "ask_draw", "ask_read", "ask_pass_draw", "ask_pass_wait",
               "ask_retry_draw", "ask_retry_wait", "final_draw", "final_read",
               "final_yes_draw", "final_yes_wait", "final_no_draw",
               "final_no_wait", "returned", "exited"}
    /\ exitCode \in {-1, 0, 1}
    /\ guard \in {"none", "held", "dropped"}
    /\ Len(queue) <= MaxQueue
    /\ no_count \in 0..MaxNo
    /\ sigwinch \in BOOLEAN
    /\ Len(stdoutBuf) <= Len(FrameParts(NoFrame)) + Len(RestoreCmds)
    /\ \A i \in 1..Len(stdoutBuf) :
          stdoutBuf[i].op \in {"EnterAlternateScreen", "Hide", "Clear", "Show",
                               "LeaveAlternateScreen", "clear", "title", "body",
                               "footer", "lock", "status", "reset", "glyph"}

----------------------------------------------------------------------------
(* Vocabulary of the properties *)

AskPcs    == {"ask_draw", "ask_read", "ask_pass_draw", "ask_pass_wait",
              "ask_retry_draw", "ask_retry_wait"}
FinalPcs  == {"final_draw", "final_read", "final_yes_draw", "final_yes_wait",
              "final_no_draw", "final_no_wait"}
\* main has returned: the guard's drop is pending, or the process is ending.
Over      == {"returned", "exited"}
ReaderPcs == {"welcome_wait", "ask_read", "ask_pass_wait", "ask_retry_wait",
              "final_read", "final_yes_wait", "final_no_wait"}

\* The step is the return of the reader call pending at `at`.
ReaderReturns(at) ==
    /\ pc = at
    /\ pc' # at
    /\ exitCode' # 1

\* The step is one iteration of the reader pending at `at` that discards.
ReaderDiscards(at) ==
    /\ pc = at
    /\ pc' = at
    /\ Len(queue') < Len(queue)

\* Position of a control state in Welcome, Cutscene, Question(1..3),
\* FinalLock, Exit.
Stage(p, idx) ==
    IF p = "init" THEN 0
    ELSE IF p \in {"welcome_draw", "welcome_wait"} THEN 1
    ELSE IF p \in {"cut_start", "cut_loop"} THEN 2
    ELSE IF p \in AskPcs THEN 2 + idx
    ELSE IF p \in FinalPcs THEN 6
    ELSE 7

----------------------------------------------------------------------------
(* C1: with the 3 configured questions the final lock is entered at most    *)
(* once, and only when questions 1, 2 and 3 have been answered correctly    *)
(* in that order (and it is entered as soon as the third "Correct!" frame   *)
(* is dismissed); a wrong answer leads back to the frame of the same        *)
(* question, never to another question.                                     *)
C1_FinalLockOnceInOrder ==
    /\ [](/\ finalEntries <= 1
          /\ (pc \in FinalPcs => finalEntries = 1)
          /\ (finalEntries = 1 => passed = <<1, 2, 3>>)
          /\ (pc \in AskPcs => /\ finalEntries = 0
                               /\ q \in 1..3
                               /\ passed \in {[k \in 1..(q - 1) |-> k],
                                              [k \in 1..q |-> k]}))
    /\ [][/\ (pc = "ask_read" /\ pc' = "ask_retry_draw"
                => q' = q /\ passed' = passed)
          /\ (pc = "ask_retry_draw" /\ pc' \notin {pc, "returned"}
                => pc' = "ask_retry_wait" /\ q' = q)
          /\ (pc = "ask_retry_wait" /\ pc' \notin {pc, "returned"}
                => pc' = "ask_draw" /\ q' = q)
          /\ (pc = "ask_draw" /\ pc' # "returned" /\ pc' # pc
                => /\ pc' = "ask_read" /\ q' = q
                   /\ frame'.title = locks[q].title
                   /\ frame'.status = "AWAITING INPUT")
          /\ (pc = "ask_pass_wait" /\ q = 3 /\ pc' \notin {pc, "returned"}
                => pc' = "final_draw" /\ finalEntries' = 1)]_vars

\* The final lock is waiting for Y or N after the three questions were passed.
C1_Witness ==
    /\ pc = "final_read"
    /\ finalEntries = 1
    /\ passed = <<1, 2, 3>>

----------------------------------------------------------------------------
\* The hint the k-th "N" is to show.
C2_Hint(k) ==
    IF k = 1 THEN "X I think you pressed the wrong key..."
    ELSE IF k = 2 THEN "X Hint: 3 letters."
    ELSE "X Just kidding, I know you love me"

(* C2: at the final lock the k-th "N" shows hint 1 for k = 1, hint 2 for    *)
(* k = 2 and hint 3 for every k >= 3; the retry counter only increments     *)
(* while final_lock runs; a "Y" goes to the success frame without a hint,   *)
(* whatever the number of earlier "N".                                      *)
C2_HintsEscalate ==
    /\ [](/\ (pc \in FinalPcs => no_count = nPresses)
          /\ (pc = "final_no_wait"
                => /\ nPresses >= 1
                   /\ frame.title = "FINAL LOCK"
                   /\ frame.status = "RETRY"
                   /\ frame.body = << <<C2_Hint(nPresses)>> >>)
          /\ (pc = "final_yes_wait"
                => /\ frame.title = "MISSION SUCCESS"
                   /\ frame.status = "SUCCESS"))
    /\ [][/\ (pc \in FinalPcs /\ pc' \in FinalPcs => no_count' >= no_count)
          /\ (ReaderReturns("final_read") /\ c' = "N"
                => pc' = "final_no_draw" /\ no_count' = no_count + 1)
          /\ (ReaderReturns("final_read") /\ c' = "Y"
                => pc' = "final_yes_draw" /\ no_count' = no_count)
          /\ (pc = "final_yes_draw" /\ pc' \notin {pc, "returned"}
                => pc' = "final_yes_wait")]_vars

\* "Y" was answered after MaxNo answers "N", each of which showed its hint.
C2_Witness ==
    /\ pc = "final_yes_wait"
    /\ nPresses = MaxNo
    /\ nPresses > 3

----------------------------------------------------------------------------
(* C3: the guard's release runs exactly once per successful acquisition on  *)
(* every exit path of main (Ok after the final lock, Err from any draw or   *)
(* read), and never without an acquisition.                                 *)
C3_ReleaseExactlyOnce ==
    /\ dropCount <= 1
    /\ (guard = "none" => dropCount = 0)
    /\ (guard = "held" => dropCount = 0 /\ pc # "exited")
    /\ (pc = "exited" /\ guard # "none" => dropCount = 1)
    /\ (pc \notin {"init", "exited"} => guard = "held")

\* main returned an I/O error of a draw or read, and the guard was dropped.
C3_Witness ==
    /\ pc = "exited"
    /\ exitCode = 1
    /\ guard = "dropped"
    /\ dropCount = 1

----------------------------------------------------------------------------
(* C4: when TermGuard::init fails at any of its steps, the terminal is      *)
(* restored (alternate screen left, cursor shown, raw mode off) by the      *)
(* time the process has ended with a failure status.                        *)
C4_SetupFailureRestores ==
    (pc = "exited" /\ stdoutBuf = <<>> /\ guard = "none")
        => (exitCode = 1 /\ ~altScreen /\ ~cursorHidden /\ ~rawMode)

----------------------------------------------------------------------------
\* A matching event of read_abcd / read_yn as the property words it: a
\* character key whose letter is in the accepted set, in either case.
C5_MatchesABCD(e) ==
    e.type = "Key" /\ e.code = "Char"
        /\ e.ch \in {"a", "b", "c", "d", "A", "B", "C", "D"}
C5_MatchesYN(e) ==
    e.type = "Key" /\ e.code = "Char" /\ e.ch \in {"y", "n", "Y", "N"}

\* The uppercased letter of a matching event.
C5_Upper(ch) ==
    CASE ch \in {"a", "A"} -> "A"
      [] ch \in {"b", "B"} -> "B"
      [] ch \in {"c", "C"} -> "C"
      [] ch \in {"d", "D"} -> "D"
      [] ch \in {"y", "Y"} -> "Y"
      [] ch \in {"n", "N"} -> "N"
      [] OTHER -> "?"

(* C5: read_abcd and read_yn discard an event only if it is not a matching  *)
(* event, and return exactly the uppercased letter of the first matching    *)
(* event, which is the event they read last.                                *)
C5_FirstMatchReturned ==
    [][/\ (ReaderReturns("ask_read")
             => /\ C5_MatchesABCD(Head(queue))
                /\ c' = C5_Upper(Head(queue).ch))
       /\ (ReaderDiscards("ask_read") => ~C5_MatchesABCD(Head(queue)))
       /\ (ReaderReturns("final_read")
             => /\ C5_MatchesYN(Head(queue))
                /\ c' = C5_Upper(Head(queue).ch))
       /\ (ReaderDiscards("final_read") => ~C5_MatchesYN(Head(queue)))]_vars

\* read_abcd returned "A" after it had discarded at least one event.
C5_Witness ==
    /\ pc = "ask_pass_draw"
    /\ c = "A"
    /\ discarded

----------------------------------------------------------------------------
(* C6: the three readers return only on a key-press event; a key event of   *)
(* another kind (release, repeat) never makes a reader return.              *)
C6_OnlyKeyPress ==
    [][\A at \in ReaderPcs :
          ReaderReturns(at)
            => (Head(queue).type = "Key" /\ Head(queue).kind = "Press")]_vars

----------------------------------------------------------------------------
(* C7: the sequencer's states are visited in the order Welcome, Cutscene,   *)
(* Question(1), Question(2), Question(3), FinalLock, Exit: a step never     *)
(* goes back, and never skips a state except when an I/O error ends the     *)
(* process; the process ends successfully only from the dismissed success   *)
(* frame of the final lock.                                                 *)
C7_StatesInOrder ==
    [][/\ Stage(pc', q') >= Stage(pc, q)
       /\ (pc' \notin Over => Stage(pc', q') <= Stage(pc, q) + 1)
       /\ (pc' \in Over /\ pc \notin Over /\ pc # "final_yes_wait"
             => exitCode' = 1)
       /\ (pc' \in Over /\ pc \notin Over /\ exitCode' = 0
             => /\ pc = "final_yes_wait"
                /\ frame.title = "MISSION SUCCESS"
                /\ passed = <<1, 2, 3>>)]_vars

\* The process has ended successfully.
C7_Witness ==
    /\ pc = "exited"
    /\ exitCode = 0
    /\ passed = <<1, 2, 3>>
    /\ finalEntries = 1

----------------------------------------------------------------------------
(* C8: from one frame to the next the displayed lock index never decreases  *)
(* and it never exceeds the displayed total; while a question is on screen  *)
(* it is the question's 1-based number, and every frame of the final lock   *)
(* shows the total as index and as total.  A frame displays an index once   *)
(* its status bar is written (a draw that failed may leave a frame without  *)
(* one on screen, and the rest of it in stdout's buffer).                   *)
C8_Displayed(fr) == fr.lock_total # 0

C8_LockIndexMonotone ==
    /\ [](/\ frame.lock_idx <= frame.lock_total
          /\ (C8_Displayed(frame) => frame.lock_total = 4)
          /\ (pc \in {"ask_read", "ask_pass_wait", "ask_retry_wait"}
                => frame.lock_idx = q /\ frame.title = locks[q].title)
          /\ (pc \in {"final_read", "final_yes_wait", "final_no_wait"}
                => frame.lock_idx = 4 /\ frame.lock_total = 4))
    /\ [][/\ C8_Displayed(frame') /\ C8_Displayed(frame)
               => frame'.lock_idx >= frame.lock_idx
          /\ \A i \in 1..Len(stdoutBuf') :
               stdoutBuf'[i].op = "lock"
                 => /\ stdoutBuf'[i].fr.lock_idx >= frame.lock_idx
                    /\ stdoutBuf'[i].fr.lock_idx <= stdoutBuf'[i].fr.lock_total]_vars

\* Frames of the final lock are on screen after those of the questions.
C8_Witness ==
    /\ pc = "final_no_wait"
    /\ frame.lock_idx = 4
    /\ passed = <<1, 2, 3>>

----------------------------------------------------------------------------
\* The step with which jet_cutscene's loop ends and main goes on.
C9_LoopEnds == pc = "cut_loop" /\ pc' = "ask_draw"

(* C9 as stated: the glyph column starts at 0, increases by one per tick    *)
(* and takes every value from 0 up to and including w - 13 before the loop  *)
(* ends.                                                                    *)
C9_ColumnsInclusive ==
    [][C9_LoopEnds /\ w >= 13
         => glyphCols = [k \in 1..(w - 13 + 1) |-> k - 1]]_vars

(* C9 amended: the glyph column starts at 0, increases by exactly one per   *)
(* tick and takes every value from 0 up to and including w - 14, one short  *)
(* of w - 13; with w <= 13 there is no tick; then the loop ends.            *)
C9_ColumnsExclusive ==
    /\ [](pc = "cut_loop"
            => /\ glyphCols = [k \in 1..x |-> k - 1]
               /\ (w > 13 => x <= w - 13)
               /\ (w <= 13 => x = 0))
    /\ [][/\ (pc = "cut_loop" /\ pc' = "cut_loop" /\ glyphCols' # glyphCols
                => /\ x' = x + 1
                   /\ glyphCols' = Append(glyphCols, x)
                   /\ frame'.glyph[1] = x
                   /\ x < w - 13)
          /\ (C9_LoopEnds
                => glyphCols = [k \in 1..(IF w > 13 THEN w - 13 ELSE 0) |-> k - 1])]_vars

\* The loop has drawn the glyph at columns 0 and 1 of a terminal 15 wide and
\* is about to end.
C9_Witness ==
    /\ pc = "cut_loop"
    /\ w = 15
    /\ glyphCols = <<0, 1>>
    /\ frame.glyph # NoGlyph
    /\ frame.glyph[1] = 1

----------------------------------------------------------------------------
\* The status of the frame that prompts for the input a reader waits for.
C10_Prompt(at) ==
    CASE at = "welcome_wait" -> "STANDBY"
      [] at \in {"ask_read", "final_read"} -> "AWAITING INPUT"
      [] at = "ask_pass_wait" -> "PASS"
      [] at \in {"ask_retry_wait", "final_no_wait"} -> "RETRY"
      [] at = "final_yes_wait" -> "SUCCESS"

(* C10: whenever a reader (wait_any_key, read_abcd, read_yn) is waiting,    *)
(* the frame that prompts for its input has been drawn and flushed, and no  *)
(* reader has returned since that draw.                                     *)
C10_DrawBeforeRead ==
    pc \in ReaderPcs
        => /\ readsSinceDraw = 0
           /\ frame # NoFrame
           /\ frame.status = C10_Prompt(pc)
           /\ frame.glyph = NoGlyph

\* The retry frame of the final lock is on screen and wait_any_key waits.
C10_Witness ==
    /\ pc = "final_no_wait"
    /\ readsSinceDraw = 0
    /\ frame.status = "RETRY"
    /\ nPresses = 2

----------------------------------------------------------------------------
\* Main has returned an error, or is returning it with this step.
C11_Failed == ioFailed /\ pc \in Over

\* Once an I/O failure happened, main has returned Err at once, and from
\* then on no event is read and the sequencer does not move; the guard's
\* drop runs once (when a guard exists) and an error inside it changes
\* neither main's result nor anything else.
C11_Propagates ==
    /\ [](/\ (ioFailed => pc \in Over /\ exitCode = 1)
          /\ (ioFailed /\ pc = "exited" /\ guard # "none"
                => guard = "dropped" /\ dropCount = 1)
          /\ (pc \in Over /\ ~ioFailed => exitCode = 0)
          /\ (dropFailed => pc = "exited" /\ guard = "dropped"))
    /\ [][(pc \in Over)
            => /\ pc' \in Over
               /\ UNCHANGED <<exitCode, queue, q, passed, finalEntries, nPresses,
                              readsSinceDraw, ioFailed>>]_vars

(* C11 as stated: an I/O failure of a draw or an event read is not retried  *)
(* or recovered: it propagates to main, after which no further frame is     *)
(* drawn (the screen keeps its frame, or loses it with the alternate        *)
(* screen), no further input is read and the sequencer does not advance;    *)
(* the process ends with failure after the guard's drop, whose own errors   *)
(* are swallowed.                                                           *)
C11_NothingDrawnAfter ==
    /\ C11_Propagates
    /\ [][C11_Failed => frame' \in {frame, NoFrame}]_vars

(* C11 amended: an I/O failure of a draw or an event read is not retried or *)
(* recovered by the program: it propagates to main, after which main calls  *)
(* no further draw, reads no further input and the sequencer does not       *)
(* advance; the process ends with failure after the guard's drop, whose own *)
(* errors are swallowed.  What the failed flush left in stdout's buffer is  *)
(* still written by the drop's flush or at the end of the process, so the   *)
(* frame whose draw failed, and no other, can still appear on the screen.   *)
C11_ErrorsPropagate ==
    /\ C11_Propagates
    /\ [][C11_Failed
            => \A f \in DOMAIN frame :
                 frame'[f] \in {frame[f], NoFrame[f]}
                               \cup {stdoutBuf[i].fr[f] : i \in 1..Len(stdoutBuf)}]_vars

\* The flush of a draw failed, main returned the error, and the drop's flush
\* wrote the frame up to its status bar before it failed too: the title of
\* the frame whose draw failed is on screen, in the alternate screen.
C11_Witness ==
    /\ pc = "exited"
    /\ ioFailed
    /\ dropFailed
    /\ exitCode = 1
    /\ guard = "dropped"
    /\ altScreen
    /\ Len(stdoutBuf) = 4
    /\ stdoutBuf[1].op = "status"
    /\ frame.title = "MISSION SUCCESS"

----------------------------------------------------------------------------
\* The event at the head of the input (none: a mouse event stands for it).
C12_Head == IF queue = <<>> THEN MouseEv ELSE Head(queue)

\* The read pending in question k has the question's correct letter to read.
C12_CorrectGiven(k) ==
    /\ pc = "ask_read" /\ q = k
    /\ C12_Head.type = "Key" /\ C12_Head.code = "Char"
    /\ C12_Head.ch \in (IF k = 3 THEN {"c", "C"} ELSE {"a", "A"})

\* The read pending at the final lock has a "Y" to read.
C12_YesGiven ==
    /\ pc = "final_read"
    /\ C12_Head.type = "Key" /\ C12_Head.code = "Char"
    /\ C12_Head.ch \in {"y", "Y"}

\* The user's part: a pending wait_any_key is not left without a key event
\* for ever, no question is left without its correct letter for ever, and
\* the final lock is not left without a "Y" for ever.
C12_UserAnswers ==
    /\ []<>(pc \notin {"welcome_wait", "ask_pass_wait", "ask_retry_wait",
                       "final_yes_wait", "final_no_wait"}
            \/ C12_Head.type = "Key")
    /\ \A k \in 1..3 : []<>(~(pc \in AskPcs /\ q = k) \/ C12_CorrectGiven(k))
    /\ []<>(pc \notin {"final_draw", "final_read", "final_no_draw", "final_no_wait"}
            \/ C12_YesGiven)

\* Exit: main returned Ok(()) and the terminal is released.
C12_Exit ==
    /\ pc = "exited"
    /\ stdoutBuf = <<>>
    /\ exitCode = 0
    /\ guard = "dropped"
    /\ ~altScreen /\ ~cursorHidden /\ ~rawMode

(* C12: when no I/O error occurs and the user answers (every pending read   *)
(* eventually gets a qualifying key, every question eventually its correct  *)
(* letter, the final lock eventually a "Y"), the program eventually reaches *)
(* Exit, for every terminal width: the cutscene ends, the terminal is       *)
(* released and the process ends successfully.                              *)
C12_EventuallyExit == C12_UserAnswers => <>C12_Exit

\* The program has reached Exit on a terminal without I/O errors.
C12_Witness ==
    /\ C12_Exit
    /\ passed = <<1, 2, 3>>
    /\ ~ioFailed /\ ~dropFailed

----------------------------------------------------------------------------
(* C13: for every terminal width and every text, center_x returns
   floor((width - length in characters) / 2) when the text is not longer
   than the width and 0 when it is longer; the result is never negative and
   never wraps. *)
C13_CenterXClamped ==
    pure.op = "center_x" =>
        /\ pure.out[1] >= 0
        /\ pure.out[1] = IF pure.b <= pure.a THEN (pure.a - pure.b) \div 2 ELSE 0

(* C13, for the function as it is written: center_x counts the characters
   of the text in 16 bits. For every terminal width and every text of fewer
   than 65536 characters it returns floor((width - length in characters) / 2)
   when the text is not longer than the width and 0 when it is longer; for a
   text of 65536 characters or more it returns that value for the length
   modulo 65536. The result is never negative and never beyond the middle of
   the width. *)
C13_CenterXClampedU16 ==
    pure.op = "center_x" =>
        /\ pure.out[1] >= 0
        /\ pure.out[1] <= pure.a \div 2
        /\ pure.b < U16 =>
               pure.out[1] = IF pure.b <= pure.a THEN (pure.a - pure.b) \div 2 ELSE 0
        /\ pure.b >= U16 =>
               LET low == pure.b - U16 * (pure.b \div U16)
               IN  pure.out[1] = IF low <= pure.a THEN (pure.a - low) \div 2 ELSE 0

\* center_x has been applied to a text of 65546 characters on 80 columns: it
\* is placed as a text of 10 characters is.
C13_Witness ==
    /\ pure.op = "center_x"
    /\ pure.a = DefaultWidth
    /\ pure.b = U16 + 10
    /\ pure.out = <<35>>

----------------------------------------------------------------------------
(* C14: the terminal dimensions are queried for each frame and never kept
   across frames: the row of the cutscene glyph and the bound of its sweep
   are those of the dimensions the frame it is drawn on was laid out with,
   also when the terminal was resized between two frames. *)
C14_DimensionsPerFrame ==
    frame.glyph # NoGlyph =>
        /\ frame.glyph[2] = frame.h \div 2
        /\ frame.glyph[1] < saturating_sub(frame.w, GlyphWidth)

----------------------------------------------------------------------------
(* C16: in question i every letter read_abcd returns is followed by one
   feedback frame and then one wait_any_key: the frame with status PASS if
   and only if the letter is question i's correct answer (A, A and C), else
   the frame with status RETRY that carries question i's own hint; the
   feedback frame stays until the wait returns, and after a RETRY the
   question frame (status AWAITING INPUT) of the same question is drawn
   again before the next choice is read. *)
C16_Correct == <<"A", "A", "C">>

C16_HintOf ==
    << "Hint: You like sushi don't you?",
       "Hint: flightline chaos",
       "Hint: I carried so hard, its a battle royal game!" >>

C16_Continues == pc' \notin {pc, "returned"}

C16_Step ==
    /\ ReaderReturns("ask_read") =>
          /\ c' \in {"A", "B", "C", "D"}
          /\ pc' = "ask_pass_draw" <=> c' = C16_Correct[q]
          /\ pc' = "ask_retry_draw" <=> c' # C16_Correct[q]
          /\ q' = q
    /\ pc = "ask_pass_draw" /\ C16_Continues =>
          /\ pc' = "ask_pass_wait"
          /\ c = C16_Correct[q] /\ q' = q
          /\ frame'.status = "PASS" /\ frame'.lock_idx = q
    /\ pc = "ask_retry_draw" /\ C16_Continues =>
          /\ pc' = "ask_retry_wait"
          /\ c # C16_Correct[q] /\ q' = q
          /\ frame'.status = "RETRY" /\ frame'.lock_idx = q
          /\ frame'.body = << <<"Incorrect.">>, <<C16_HintOf[q]>> >>
    /\ pc \in {"ask_pass_wait", "ask_retry_wait"} /\ pc' # "returned" =>
          frame' = frame
    /\ ReaderReturns("ask_retry_wait") => pc' = "ask_draw" /\ q' = q
    /\ ReaderReturns("ask_pass_wait") =>
          \/ pc' = "ask_draw" /\ q' = q + 1
          \/ pc' = "final_draw" /\ q = 3
    /\ pc = "ask_draw" /\ C16_Continues =>
          /\ pc' = "ask_read"
          /\ frame'.status = "AWAITING INPUT" /\ frame'.lock_idx = q

C16_Feedback ==
    /\ [](pc = "ask_read" => frame.status = "AWAITING INPUT" /\ frame.lock_idx = q)
    /\ [](pc = "ask_pass_wait" => frame.status = "PASS")
    /\ [](pc = "ask_retry_wait" => frame.status = "RETRY")
    /\ [][C16_Step]_vars

\* The first two questions were passed with A, and A at the third question
\* is answered with the failure frame carrying the third question's hint.
C16_Witness ==
    /\ pc = "ask_retry_wait" /\ q = 3 /\ c = "A"
    /\ passed = <<1, 2>>
    /\ frame.status = "RETRY" /\ frame.lock_idx = 3
    /\ frame.body = << <<"Incorrect.">>, <<C16_HintOf[3]>> >>

----------------------------------------------------------------------------
(* C15: for every whole number s of elapsed seconds the clock of the status
   bar reads minutes ":" seconds, the minutes being s div 60 written with at
   least two digits and as many more as they need (no rollover into hours),
   the seconds being s mod 60 written with exactly two digits, 00 to 59;
   61 seconds read "01:01" and 3661 seconds read "61:01". *)
RECURSIVE C15_Value(_)
C15_Value(d) ==
    IF d = <<>> THEN 0
    ELSE 10 * C15_Value(SubSeq(d, 1, Len(d) - 1))
         + (CHOOSE v \in 0..9 : Digit[v + 1] = d[Len(d)])

C15_Digits(d) == \A i \in 1..Len(d) : \E v \in 1..10 : d[i] = Digit[v]

C15_Clock ==
    pure.op = "format_time" =>
        LET s    == pure.a
            t    == pure.out
            n    == Len(t)
            mins == SubSeq(t, 1, n - 3)
            secs == SubSeq(t, n - 1, n)
        IN  /\ n >= 5
            /\ t[n - 2] = ":"
            /\ C15_Digits(mins) /\ C15_Digits(secs)
            /\ C15_Value(mins) = s \div 60
            /\ Len(mins) > 2 => mins[1] # "0"
            /\ C15_Value(secs) = s % 60
            /\ C15_Value(secs) \in 0..59
            /\ s = 61 => t = <<"0", "1", ":", "0", "1">>
            /\ s = 3661 => t = <<"6", "1", ":", "0", "1">>

\* The clock has been computed for an hour, a minute and a second.
C15_Witness ==
    /\ pure.op = "format_time"
    /\ pure.a = 3661
    /\ pure.out = <<"6", "1", ":", "0", "1">>

----------------------------------------------------------------------------
(* C17: a key event is accepted by a prompt only if it arrived after the
   flush of that prompt's frame: no reader (of a question, of the final
   lock, or of a feedback frame's any-key wait) returns with an event that
   was already waiting in the terminal's input when its frame was flushed. *)
C17_NoTypeahead ==
    [][\A at \in ReaderPcs : ReaderReturns(at) => stale = 0]_vars

----------------------------------------------------------------------------
(* C18: at every tick of the cutscene the glyph lies inside the width w
   measured when the cutscene started (column + 13 <= w) and its column is
   a u16 that neither underflowed nor wrapped; when w is at most the glyph
   width 13 the cutscene makes no tick, draws no frame and returns at once,
   the frame on screen staying the one drawn before it. *)
C18_Inside(col) == col \in 0..(U16 - 1) /\ col + GlyphWidth <= w

C18_GlyphInside ==
    /\ [](pc = "cut_loop"
            => /\ \A k \in 1..Len(glyphCols) : C18_Inside(glyphCols[k])
               /\ frame.glyph # NoGlyph => C18_Inside(frame.glyph[1])
               /\ w <= GlyphWidth
                    => /\ x = 0 /\ glyphCols = <<>>
                       /\ frame.glyph = NoGlyph
                       /\ frame.status # "RUNNING")
    /\ [][pc = "cut_loop" /\ w <= GlyphWidth /\ pc' # pc
            => /\ pc' = "ask_draw"
               /\ frame' = frame
               /\ exitCode' = exitCode]_vars

\* The cutscene has returned on a terminal not wider than the glyph: the
\* first question is about to be drawn over the welcome frame, no cutscene
\* frame having been drawn.
C18_Witness ==
    /\ pc = "ask_draw" /\ q = 1
    /\ frame.status = "STANDBY"
    /\ frame.glyph = NoGlyph
    /\ frame.w <= GlyphWidth

====
